---- MODULE Spec2Model ----
(***************************************************************************)
(* Water-quality notebooks 07b (per-date .png/.json export) and 07d        *)
(* (netCDF archive export): duplicate-date removal, water-mask             *)
(* construction, the per-date reprojection/masking loop and the export.    *)
(*                                                                         *)
(* Rasters are tuples of pixel values in row-major order.  A pixel value   *)
(* is an integer; NaN is the missing-value marker.  Acquisition instants   *)
(* are integers Stamp(day, k); str(instant)[:10] keeps the day.            *)
(* Fractional buffer distances are pairs <<num, den>> (num/den pixels).    *)
(***************************************************************************)
EXTENDS Integers, Sequences, FiniteSets, TLC

\* ------------------------------------------------------------- bounds
MaxDates == 3      \* acquisitions in the stack of the deduplication runs
MaxPix == 3        \* pixels of a WQ raster
MaxRows == 2       \* rows of the WOFS grid in the mask runs
MaxCols == 2       \* columns of the WOFS grid in the mask runs
MaxNum == 3        \* buffer distance numerators
MaxDen == 2        \* buffer distance denominators
PipeDates == 2
\* the most records a dataset of notebook 08e is created with
MaxRecs == 3     \* acquisitions in the stack of the whole-notebook runs

DateSet == {1, 2}                  \* calendar days of the acquisitions
NaN == -1                          \* np.nan
StampBase == 100                   \* instants per day in Stamp
water_mask_thr == 90               \* water percentage level of the water mask
MemFill == 0                       \* pixel value of a fresh MEM dataset
PctSet == {90, 95}                 \* WOFS percentages: at the level, above it
MinValidSet == {0, 10, 50, 100}    \* values of min_valid_pix_thr
PipeShapes == {<<1, 2>>, <<2, 2>>} \* WOFS grid shapes of the whole-notebook runs
PipeSizes == {1, 2}                \* WQ raster sizes of the whole-notebook runs
PipeBuffers == {<<0, 1>>, <<1, 1>>}

\* ------------------------------------------------------------- state
VARIABLES
    mode,               \* "07b" (per-date export) or "07d" (archive export)
    pc,                 \* the notebook cell to execute next
    acq_dates,          \* history: the instants as acquired (cell 4)
    acq_arr,            \* history: the rasters as acquired (cell 5)
    L5_dates,           \* acquisition instants (filtered too in 07d)
    strL5_dates,        \* Y-M-D dates of the stack
    n_dates,
    WQ_TS_arr,          \* the stack of WQ rasters
    rem_ind,            \* which entries the deduplication removes
    ind,                \* loop index of cell 6 (1-based)
    pass,               \* 1, or 2 when cell 6 is applied to its own output
    out1,               \* history: the output of the first application
    WOFS_array,         \* water-occurrence percentages, a tuple of rows
    water_mask_buffer,  \* <<num, den>>: num/den pixels
    min_valid_pix_thr,
    land_mask,          \* TRUE = not water
    gdal_WQ_data,       \* band of the source MEM dataset
    gdalgeo_WQ_data,    \* band of the destination MEM dataset
    written,            \* history: destination pixels the last resample wrote
    WQ_array,           \* reprojected and masked raster of the current date
    dateind,            \* loop index of cell 15 (1-based)
    contents_json_list,
    WQ_res,             \* 07d: stacked results
    valid_dates,        \* 07d: which dates have enough valid pixels
    min_vals,           \* 07d: per-date statistics of the masked rasters
    max_vals,
    mean_vals,
    med_vals,
    flags_list,         \* 07d: per-date quality flags
    files,              \* the files written, in order
    grp                 \* 08e: the open netCDF dataset, <<>> when none is open

dedup_vars == <<acq_dates, acq_arr, L5_dates, strL5_dates, n_dates, WQ_TS_arr, rem_ind, ind, pass, out1>>
mask_vars == <<WOFS_array, water_mask_buffer, min_valid_pix_thr, land_mask>>
stat_vars == <<min_vals, max_vals, mean_vals, med_vals, flags_list>>
loop_vars == <<gdal_WQ_data, gdalgeo_WQ_data, written, WQ_array, dateind,
               contents_json_list, WQ_res, valid_dates, stat_vars, files>>
vars == <<mode, pc, dedup_vars, mask_vars, loop_vars, grp>>

\* ------------------------------------------------------------- helpers
Min(S) == CHOOSE x \in S : \A y \in S : x <= y

Stamp(day, k) == StampBase * day + k
Tag(i, p) == 10 * i + p            \* value of pixel p of acquisition i

\* str( L5_dates[ii] )[:10]
DateOf(stamp) == stamp \div StampBase

isnan(v) == v = NaN

\* np.sum( np.isnan( raster ) )
n_nans(raster) == Cardinality({p \in DOMAIN raster : isnan(raster[p])})

\* FillNaN with a fault: nothing is copied into the NaN pixels
FillNaN_nothing(a, b) == a

\* a[tmp] = b[tmp] with tmp = np.where( np.isnan(a) )
FillNaN(a, b) == [p \in DOMAIN a |-> IF isnan(a[p]) THEN b[p] ELSE a[p]]

\* dup_where with a fault: the slice reaches the current index, strL5_dates[:ind+1]
dup_where_incl(dates, i) == {k \in 1..i : dates[k] = dates[i]}

\* first_dup with a fault: dup_ind[-1], the last of the earlier entries of the date
first_dup_last(dup_ind) == CHOOSE x \in dup_ind : \A y \in dup_ind : y <= x

\* dup_ind = dup_ind[0]: only the first index if multiple dates returned
first_dup(dup_ind) == Min(dup_ind)

\* np.where( strL5_dates[:ind]==strL5_dates[ind] )[0], 1-based
dup_where(dates, i) == {k \in 1..(i - 1) : dates[k] = dates[i]}

\* Resolve with a fault: the copies go from the earlier entry to the current one
Resolve_backwards(arr, i, dup) ==
    LET ind_n_nans == n_nans(arr[i])
        dup_n_nans == n_nans(arr[dup])
    IN  IF ind_n_nans = 0
        THEN [arr EXCEPT ![i] = arr[dup]]
        ELSE IF dup_n_nans # 0
             THEN IF dup_n_nans < ind_n_nans
                  THEN [arr EXCEPT ![dup] = FillNaN(arr[dup], arr[i])]
                  ELSE [arr EXCEPT ![i] = FillNaN(arr[i], arr[dup])]
             ELSE arr

\* Resolve with a fault: the earlier entry is filled whichever raster has fewer NaN's
Resolve_fill_earlier(arr, i, dup) ==
    LET ind_n_nans == n_nans(arr[i])
        dup_n_nans == n_nans(arr[dup])
    IN  IF ind_n_nans = 0
        THEN [arr EXCEPT ![dup] = arr[i]]
        ELSE IF dup_n_nans # 0
             THEN [arr EXCEPT ![dup] = FillNaN(arr[dup], arr[i])]
             ELSE arr

\* Resolve with a fault: a complete earlier raster is not replaced
Resolve_keep_first(arr, i, dup) ==
    LET ind_n_nans == n_nans(arr[i])
        dup_n_nans == n_nans(arr[dup])
    IN  IF ind_n_nans = 0
        THEN IF dup_n_nans = 0 THEN arr ELSE [arr EXCEPT ![dup] = arr[i]]
        ELSE IF dup_n_nans # 0
             THEN IF dup_n_nans < ind_n_nans
                  THEN [arr EXCEPT ![dup] = FillNaN(arr[dup], arr[i])]
                  ELSE LET filled == FillNaN(arr[i], arr[dup])
                       IN  [arr EXCEPT ![i] = filled, ![dup] = filled]
             ELSE arr

\* Resolve with a fault: a complete earlier raster is overwritten by the current one
Resolve_overwrite(arr, i, dup) ==
    LET ind_n_nans == n_nans(arr[i])
        dup_n_nans == n_nans(arr[dup])
    IN  IF ind_n_nans = 0
        THEN [arr EXCEPT ![dup] = arr[i]]
        ELSE IF dup_n_nans # 0
             THEN IF dup_n_nans < ind_n_nans
                  THEN [arr EXCEPT ![dup] = FillNaN(arr[dup], arr[i])]
                  ELSE LET filled == FillNaN(arr[i], arr[dup])
                       IN  [arr EXCEPT ![i] = filled, ![dup] = filled]
             ELSE [arr EXCEPT ![dup] = arr[i]]

\* Resolve with a fault: the filled current raster is not saved to the lowest index
Resolve_no_store(arr, i, dup) ==
    LET ind_n_nans == n_nans(arr[i])
        dup_n_nans == n_nans(arr[dup])
    IN  IF ind_n_nans = 0
        THEN [arr EXCEPT ![dup] = arr[i]]
        ELSE IF dup_n_nans # 0
             THEN IF dup_n_nans < ind_n_nans
                  THEN [arr EXCEPT ![dup] = FillNaN(arr[dup], arr[i])]
                  ELSE [arr EXCEPT ![i] = FillNaN(arr[i], arr[dup])]
             ELSE arr

\* Resolve with a fault: the comparison of the NaN counts is turned round
Resolve_flipped(arr, i, dup) ==
    LET ind_n_nans == n_nans(arr[i])
        dup_n_nans == n_nans(arr[dup])
    IN  IF ind_n_nans = 0
        THEN [arr EXCEPT ![dup] = arr[i]]
        ELSE IF dup_n_nans # 0
             THEN IF dup_n_nans > ind_n_nans
                  THEN [arr EXCEPT ![dup] = FillNaN(arr[dup], arr[i])]
                  ELSE LET filled == FillNaN(arr[i], arr[dup])
                       IN  [arr EXCEPT ![i] = filled, ![dup] = filled]
             ELSE arr

\* the if / elif of cell 6 on the stack, for entry i and its first duplicate dup
Resolve(arr, i, dup) ==
    LET ind_n_nans == n_nans(arr[i])
        dup_n_nans == n_nans(arr[dup])
    IN  IF ind_n_nans = 0
        THEN [arr EXCEPT ![dup] = arr[i]]
        ELSE IF dup_n_nans # 0
             THEN IF dup_n_nans < ind_n_nans
                  THEN [arr EXCEPT ![dup] = FillNaN(arr[dup], arr[i])]
                  ELSE LET filled == FillNaN(arr[i], arr[dup])
                       IN  [arr EXCEPT ![i] = filled, ![dup] = filled]
             ELSE arr

\* Select with a fault: the entries kept come out in reverse order
Select_reversed(seq, keep) ==
    LET F[k \in 0..Len(seq)] ==
            IF k = 0 THEN <<>>
            ELSE IF keep[k] THEN <<seq[k]>> \o F[k - 1] ELSE F[k - 1]
    IN  F[Len(seq)]

\* seq[ keep ] for a boolean index array keep
Select(seq, keep) ==
    LET F[k \in 0..Len(seq)] ==
            IF k = 0 THEN <<>>
            ELSE IF keep[k] THEN Append(F[k - 1], seq[k]) ELSE F[k - 1]
    IN  F[Len(seq)]

\* Filter with a fault: seq[ rem ], the negation forgotten
Filter_removed(seq, rem) == Select(seq, rem)

\* seq[ ~rem ]
Filter(seq, rem) == Select(seq, [k \in 1..Len(rem) |-> ~rem[k]])

\* FilterInstants with a fault: the line that filters the instants is missing
FilterInstants_forgotten(notebook, dates, rem) == dates

\* the acquisition instants after cell 6: 07d has  LS_dates = LS_dates[ ~rem_ind ],
\* 07b leaves L5_dates as acquired
FilterInstants(notebook, dates, rem) ==
    IF notebook = "07d" THEN Filter(dates, rem) ELSE dates

\* ------------------------------------------------------------- water mask
Rows(m) == 1..Len(m)
Cols(m) == IF Len(m) = 0 THEN {} ELSE 1..Len(m[1])
Pix(m) == Rows(m) \X Cols(m)
Matrix(dx, dy, v) == [r \in 1..dx |-> [c \in 1..dy |-> v]]

\* threshold_mask with a fault: ( WOFS_array<water_mask_thr )
threshold_mask_strict(wofs) == [r \in Rows(wofs) |-> [c \in Cols(wofs) |-> wofs[r][c] < water_mask_thr]]

\* ( WOFS_array<=water_mask_thr )
threshold_mask(wofs) == [r \in Rows(wofs) |-> [c \in Cols(wofs) |-> wofs[r][c] <= water_mask_thr]]

\* np.floor(npix)
floor(npix) == npix[1] \div npix[2]

\* pdist( [a, b] ) <= npix, for integer points a, b and npix = num/den
pdist_le(a, b, npix) ==
    npix[2] * npix[2] * ((a[1] - b[1]) * (a[1] - b[1]) + (a[2] - b[2]) * (a[2] - b[2]))
        <= npix[1] * npix[1]

\* pdist( [a, b] ) < npix
pdist_lt(a, b, npix) ==
    npix[2] * npix[2] * ((a[1] - b[1]) * (a[1] - b[1]) + (a[2] - b[2]) * (a[2] - b[2]))
        < npix[1] * npix[1]

\* struc with a fault: the test  pdist(...) < npix
struc_strict(npix) ==
    LET nmid == floor(npix)
        nmax == nmid * 2 + 1
        hit == {ij \in (0..(nmax - 1)) \X (0..(nmax - 1)) :
                    ij[2] >= ij[1] /\ pdist_lt(<<nmid, nmid>>, ij, npix)}
    IN  [size |-> nmax, on |-> hit \cup {<<ij[2], ij[1]>> : ij \in hit}]

\* struc with a fault: distances taken from [0,0] instead of [nmid,nmid]
struc_corner(npix) ==
    LET nmid == floor(npix)
        nmax == nmid * 2 + 1
        hit == {ij \in (0..(nmax - 1)) \X (0..(nmax - 1)) :
                    ij[2] >= ij[1] /\ pdist_le(<<0, 0>>, ij, npix)}
    IN  [size |-> nmax, on |-> hit \cup {<<ij[2], ij[1]>> : ij \in hit}]

\* the binary structure built by the two loops of expand_mask
struc(npix) ==
    LET nmid == floor(npix)
        nmax == nmid * 2 + 1
        hit == {ij \in (0..(nmax - 1)) \X (0..(nmax - 1)) :
                    ij[2] >= ij[1] /\ pdist_le(<<nmid, nmid>>, ij, npix)}
    IN  [size |-> nmax, on |-> hit \cup {<<ij[2], ij[1]>> : ij \in hit}]

\* ndimage.binary_dilation(mask_arr, structure=s): origin at the centre of s,
\* pixels outside the array are FALSE
binary_dilation(mask_arr, s) ==
    LET centre == s.size \div 2
    IN  [r \in Rows(mask_arr) |-> [c \in Cols(mask_arr) |->
            \E ij \in s.on :
                LET rr == r - (ij[1] - centre)
                    cc == c - (ij[2] - centre)
                IN  <<rr, cc>> \in Pix(mask_arr) /\ mask_arr[rr][cc]]]

expand_mask(mask_arr, npix) == binary_dilation(mask_arr, struc(npix))

\* ------------------------------------------------------------- per-date loop
\* ResetDest with a fault: the destination band is not rewritten before the resample
ResetDest_skipped(band) == band

\* WriteArray( np.ones((WOFS_dx,WOFS_dy))*np.nan, 0, 0)
ResetDest(band) == Matrix(Len(band), Len(band[1]), NaN)

\* The warp of the source band onto the destination grid.  Destination pixel
\* (r, c) falls on source pixel (r-1)*WOFS_dy + c when the source has one
\* there and outside the source footprint otherwise; with skip the engine
\* leaves the destination alone where the source is NaN.
SourcePixel(src, dst, r, c) == (r - 1) * Len(dst[1]) + c
Writes(src, dst, skip, r, c) ==
    LET j == SourcePixel(src, dst, r, c)
    IN  j <= Len(src) /\ ~(skip /\ isnan(src[j]))
ReprojectImage(src, dst, skip) ==
    [r \in Rows(dst) |-> [c \in Cols(dst) |->
        IF Writes(src, dst, skip, r, c) THEN src[SourcePixel(src, dst, r, c)] ELSE dst[r][c]]]

\* ApplyMask with a fault: the water pixels are masked out, WQ_array[~land_mask]
ApplyMask_inverted(arr, mask) ==
    [r \in Rows(arr) |-> [c \in Cols(arr) |-> IF ~mask[r][c] THEN NaN ELSE arr[r][c]]]

\* WQ_array[land_mask] = np.nan
ApplyMask(arr, mask) ==
    [r \in Rows(arr) |-> [c \in Cols(arr) |-> IF mask[r][c] THEN NaN ELSE arr[r][c]]]

\* np.sum( ~land_mask )
n_water(mask) == Cardinality({p \in Pix(mask) : ~mask[p[1]][p[2]]})
\* np.sum( ~np.isnan(WQ_array) )
n_valid(arr) == Cardinality({p \in Pix(arr) : ~isnan(arr[p[1]][p[2]])})

\* the pixels of a raster that hold a value
ValidPix(arr) == {p \in Pix(arr) : ~isnan(arr[p[1]][p[2]])}

RECURSIVE SumOver(_, _)
SumOver(arr, S) ==
    IF S = {} THEN 0
    ELSE LET p == CHOOSE q \in S : TRUE
         IN  arr[p[1]][p[2]] + SumOver(arr, S \ {p})

\* q comes before p when the valid pixels are sorted by value
Before(arr, q, p) ==
    \/ arr[q[1]][q[2]] < arr[p[1]][p[2]]
    \/ /\ arr[q[1]][q[2]] = arr[p[1]][p[2]]
       /\ (q[1] < p[1] \/ (q[1] = p[1] /\ q[2] < p[2]))

\* the k-th smallest of the values of a raster, k in 1..number of values
kth(arr, k) ==
    LET p == CHOOSE q \in ValidPix(arr) :
                 Cardinality({o \in ValidPix(arr) : Before(arr, o, q)}) = k - 1
    IN  arr[p[1]][p[2]]

\* float( np.nanmin( WQ_array ) ): nan (and a warning) when every pixel is nan
nanmin(arr) == IF ValidPix(arr) = {} THEN NaN ELSE kth(arr, 1)

\* float( np.nanmax( WQ_array ) )
nanmax(arr) == IF ValidPix(arr) = {} THEN NaN ELSE kth(arr, Cardinality(ValidPix(arr)))

\* float( np.nanmean( WQ_array ) ) as the fraction <<sum, count>>; <<0, 0>> is nan
nanmean(arr) == <<SumOver(arr, ValidPix(arr)), Cardinality(ValidPix(arr))>>

\* float( np.nanmedian( WQ_array ) ) as the fraction <<lower + upper middle, 2>>
nanmedian(arr) ==
    LET n == Cardinality(ValidPix(arr))
    IN  IF n = 0 THEN <<0, 0>>
        ELSE <<kth(arr, (n + 1) \div 2) + kth(arr, (n \div 2) + 1), 2>>

\* Retain07b with a fault: one valid pixel is enough, the minimum is not used
Retain07b_any(n_valid_pix, n_water_pix, thr) == n_valid_pix > 0

\* Retain07b with a fault: strictly more than the minimum
Retain07b_strict(n_valid_pix, n_water_pix, thr) ==
    IF n_water_pix = 0 THEN n_valid_pix > 0
    ELSE 100 * n_valid_pix > thr * n_water_pix

\* (100.0*n_valid_pix/n_water_pix)>=min_valid_pix_thr ; x/0 is nan for x = 0
\* (no comparison holds) and inf otherwise
Retain07b(n_valid_pix, n_water_pix, thr) ==
    IF n_water_pix = 0 THEN n_valid_pix > 0
    ELSE 100 * n_valid_pix >= thr * n_water_pix

\* np.sum( ~np.isnan(WQ_array) )>=pix_thr, pix_thr = n_water * thr / 100.0
Retain07d(n_valid_pix, n_water_pix, thr) == 100 * n_valid_pix >= n_water_pix * thr

\* NonEmptySeries with a fault: np.sum(valid_dates)>=0
NonEmptySeries_always(valid) == Cardinality({d \in 1..Len(valid) : valid[d]}) >= 0

\* np.sum(valid_dates)>0
NonEmptySeries(valid) == Cardinality({d \in 1..Len(valid) : valid[d]}) > 0

\* ------------------------------------------------------------- initial states
Raster(i, s, valid) == [p \in 1..s |-> IF p \in valid THEN Tag(i, p) ELSE NaN]

AcquiredStack(n, s, days, valid) ==
    /\ L5_dates = [i \in 1..n |-> Stamp(days[i], i)]
    /\ WQ_TS_arr = [i \in 1..n |-> Raster(i, s, valid[i])]
    /\ acq_dates = L5_dates
    /\ acq_arr = WQ_TS_arr
    /\ strL5_dates = <<>>
    /\ n_dates = 0
    /\ rem_ind = <<>>
    /\ ind = 0
    /\ pass = 1
    /\ out1 = <<>>

\* the user inputs of cell 2 and the WOFS array of cells 8 and 9
UserInputs(wofs, buffer, min_valid) ==
    /\ WOFS_array = wofs
    /\ water_mask_buffer = buffer
    /\ min_valid_pix_thr = min_valid
    /\ land_mask = <<>>
    /\ gdal_WQ_data = <<>>
    /\ gdalgeo_WQ_data = <<>>
    /\ written = {}
    /\ WQ_array = <<>>
    /\ dateind = 0
    /\ contents_json_list = <<>>
    /\ WQ_res = <<>>
    /\ valid_dates = <<>>
    /\ min_vals = <<>>
    /\ max_vals = <<>>
    /\ mean_vals = <<>>
    /\ med_vals = <<>>
    /\ flags_list = <<>>
    /\ files = <<>>
    /\ grp = <<>>

WOFSArrays(dx, dy) == [1..dx -> [1..dy -> PctSet]]

\* the whole notebook, from cell 4 on
Init ==
    /\ mode \in {"07b", "07d"}
    /\ pc = "cell4"
    /\ \E n \in 0..PipeDates, s \in PipeSizes :
         \E days \in [1..n -> DateSet], valid \in [1..n -> SUBSET (1..s)] :
            AcquiredStack(n, s, days, valid)
    /\ \E shape \in PipeShapes, buffer \in PipeBuffers, min_valid \in MinValidSet :
         \E wofs \in WOFSArrays(shape[1], shape[2]) :
            UserInputs(wofs, buffer, min_valid)

\* the deduplication alone, on every stack within the bounds.  Days and
\* pixels can be renamed without changing what cell 6 does, so the first
\* acquisition is on day 1 and its valid pixels are the first k.
InitDedup ==
    /\ mode \in {"07b", "07d"}
    /\ pc = "cell4"
    /\ \/ AcquiredStack(0, 1, <<>>, <<>>)
       \/ \E n \in 1..MaxDates, s \in 1..MaxPix, k \in 0..MaxPix :
            /\ k <= s
            /\ \E days \in [2..n -> DateSet], valid \in [2..n -> SUBSET (1..s)] :
                  AcquiredStack(n, s,
                                [i \in 1..n |-> IF i = 1 THEN 1 ELSE days[i]],
                                [i \in 1..n |-> IF i = 1 THEN 1..k ELSE valid[i]])
    /\ UserInputs(<<<<95>>>>, <<0, 1>>, 10)

\* the water mask alone, on every WOFS array and buffer within the bounds
InitMask ==
    /\ mode = "07b"
    /\ pc = "cell10"
    /\ AcquiredStack(0, 1, <<>>, <<>>)
    /\ \E dx \in 1..MaxRows, dy \in 1..MaxCols, num \in 0..MaxNum, den \in 1..MaxDen :
         \E wofs \in WOFSArrays(dx, dy) :
            UserInputs(wofs, <<num, den>>, 10)

\* ------------------------------------------------------------- cells 4 to 6
\* cell 4: extracting Y/M/D dates
ExtractDates ==
    /\ pc = "cell4"
    /\ n_dates' = Len(L5_dates)
    /\ strL5_dates' = [ii \in 1..Len(L5_dates) |-> DateOf(L5_dates[ii])]
    /\ rem_ind' = [ii \in 1..Len(L5_dates) |-> FALSE]
    /\ ind' = 2
    /\ pc' = "cell6"
    /\ UNCHANGED <<grp, mode, acq_dates, acq_arr, L5_dates, WQ_TS_arr, pass, out1, mask_vars, loop_vars>>

\* cell 6: one iteration of  for ind in range(1,n_dates)
DedupStep ==
    /\ pc = "cell6"
    /\ ind <= n_dates
    /\ LET dup_ind == dup_where(strL5_dates, ind)
       IN  IF dup_ind # {}
           THEN /\ rem_ind' = [rem_ind EXCEPT ![ind] = TRUE]
                /\ WQ_TS_arr' = Resolve(WQ_TS_arr, ind, first_dup(dup_ind))
           ELSE UNCHANGED <<rem_ind, WQ_TS_arr>>
    /\ ind' = ind + 1
    /\ UNCHANGED <<grp, mode, pc, acq_dates, acq_arr, L5_dates, strL5_dates, n_dates, pass, out1, mask_vars, loop_vars>>

\* cell 6: the filtering by ~rem_ind after the loop
DedupFilter ==
    /\ pc = "cell6"
    /\ ind > n_dates
    /\ WQ_TS_arr' = Filter(WQ_TS_arr, rem_ind)
    /\ strL5_dates' = Filter(strL5_dates, rem_ind)
    /\ L5_dates' = FilterInstants(mode, L5_dates, rem_ind)
    /\ pc' = "cell10"
    /\ UNCHANGED <<grp, mode, acq_dates, acq_arr, n_dates, rem_ind, ind, pass, out1, mask_vars, loop_vars>>

\* cell 6 applied a second time, to its own output
Reapply ==
    /\ pc = "cell10"
    /\ pass = 1
    /\ out1' = [dates |-> strL5_dates, arr |-> WQ_TS_arr]
    /\ pass' = 2
    /\ n_dates' = Len(strL5_dates)
    /\ rem_ind' = [ii \in 1..Len(strL5_dates) |-> FALSE]
    /\ ind' = 2
    /\ pc' = "cell6"
    /\ UNCHANGED <<grp, mode, acq_dates, acq_arr, L5_dates, strL5_dates, WQ_TS_arr, mask_vars, loop_vars>>

\* ------------------------------------------------------------- cell 10
\* generating the water / land mask
WaterMask ==
    /\ pc = "cell10"
    /\ land_mask' = expand_mask(threshold_mask(WOFS_array), water_mask_buffer)
    /\ pc' = "cell12"
    /\ UNCHANGED <<grp, mode, dedup_vars, WOFS_array, water_mask_buffer, min_valid_pix_thr, loop_vars>>

\* ------------------------------------------------------------- cells 12 to 16
\* Setup with a fault: the shape of the source band does not come from
\* WQ_TS_arr[0], so an empty stack raises nothing
Setup_unchecked ==
    /\ pc = "cell12"
    /\ gdal_WQ_data' = IF Len(WQ_TS_arr) = 0 THEN <<>>
                       ELSE [p \in 1..Len(WQ_TS_arr[1]) |-> MemFill]
    /\ gdalgeo_WQ_data' = Matrix(Len(WOFS_array), Len(WOFS_array[1]), MemFill)
    /\ contents_json_list' = <<>>
    /\ pc' = "cell15"
    /\ UNCHANGED <<written, WQ_array, dateind, WQ_res, valid_dates, stat_vars, files>>
    /\ UNCHANGED <<grp, mode, dedup_vars, mask_vars>>

\* cells 12 to 14: the two MEM datasets and the empty contents list;
\* WQ_TS_arr[0] raises IndexError on an empty stack
Setup ==
    /\ pc = "cell12"
    /\ IF Len(WQ_TS_arr) = 0
       THEN /\ pc' = "error"
            /\ UNCHANGED loop_vars
       ELSE /\ gdal_WQ_data' = [p \in 1..Len(WQ_TS_arr[1]) |-> MemFill]
            /\ gdalgeo_WQ_data' = Matrix(Len(WOFS_array), Len(WOFS_array[1]), MemFill)
            /\ contents_json_list' = <<>>
            /\ pc' = "cell15"
            /\ UNCHANGED <<written, WQ_array, dateind, WQ_res, valid_dates, stat_vars, files>>
    /\ UNCHANGED <<grp, mode, dedup_vars, mask_vars>>

\* cell 15 up to the for statement (07d allocates the result arrays)
StartLoop ==
    /\ pc = "cell15"
    /\ dateind' = 1
    /\ IF mode = "07d"
       THEN /\ n_dates' = Len(strL5_dates)
            /\ WQ_res' = [d \in 1..Len(strL5_dates) |->
                            Matrix(Len(WOFS_array), Len(WOFS_array[1]), NaN)]
            /\ valid_dates' = [d \in 1..Len(strL5_dates) |-> FALSE]
            /\ min_vals' = [d \in 1..Len(strL5_dates) |-> NaN]
            /\ max_vals' = [d \in 1..Len(strL5_dates) |-> NaN]
            /\ mean_vals' = [d \in 1..Len(strL5_dates) |-> <<0, 0>>]
            /\ med_vals' = [d \in 1..Len(strL5_dates) |-> <<0, 0>>]
            /\ flags_list' = [d \in 1..Len(strL5_dates) |-> "None"]
       ELSE UNCHANGED <<n_dates, WQ_res, valid_dates, stat_vars>>
    /\ pc' = IF Len(strL5_dates) = 0 THEN "cell16" ELSE "loop"
    /\ UNCHANGED <<grp, mode, acq_dates, acq_arr, L5_dates, strL5_dates, WQ_TS_arr, rem_ind, ind,
                   pass, out1, mask_vars, gdal_WQ_data, gdalgeo_WQ_data, written, WQ_array,
                   contents_json_list, files>>

\* Reprojected with a fault: the warp runs before the source band is
\* rewritten, on the raster of the date before
Reprojected_stale_source(skip) ==
    ReprojectImage(IF dateind = 1 THEN WQ_TS_arr[1] ELSE gdal_WQ_data,
                   ResetDest(gdalgeo_WQ_data), skip)

\* the part of an iteration the two notebooks share: write the source band,
\* reset the destination band, warp, read back and mask
Reprojected(skip) ==
    ReprojectImage(WQ_TS_arr[dateind], ResetDest(gdalgeo_WQ_data), skip)

MaskedReprojection(skip) ==
    /\ gdal_WQ_data' = WQ_TS_arr[dateind]
    /\ gdalgeo_WQ_data' = Reprojected(skip)
    /\ written' = {p \in Pix(gdalgeo_WQ_data) :
                      Writes(WQ_TS_arr[dateind], gdalgeo_WQ_data, skip, p[1], p[2])}
    /\ WQ_array' = ApplyMask(Reprojected(skip), land_mask)
    /\ dateind' = dateind + 1
    /\ pc' = IF dateind = Len(strL5_dates) THEN "cell16" ELSE "loop"

\* png_fname with a fault: the date is left out of f_basename
png_fname_undated(date) == <<"WQ", ".png">>

\* f_basename + ".png", f_basename ending with the date
png_fname(date) == <<"WQ", date, ".png">>
json_fname(date) == <<"WQ", date, ".json">>

\* short_json_dict with a fault: 'json' is given the image path
short_json_dict_image_twice(date) ==
    [date |-> date, image |-> png_fname(date), json |-> png_fname(date)]

\* the short-form record appended to contents_json_list
short_json_dict(date) ==
    [date |-> date, image |-> png_fname(date), json |-> json_fname(date)]

\* 07b, cell 15: one iteration of  for dateind in range( len(strL5_dates) )
LoopStep07b ==
    /\ pc = "loop"
    /\ mode = "07b"
    /\ \E skip \in BOOLEAN :
        /\ MaskedReprojection(skip)
        /\ IF Retain07b(n_valid(WQ_array'), n_water(land_mask), min_valid_pix_thr)
           THEN LET date == strL5_dates[dateind]
                IN  /\ files' = files \o
                          << [kind |-> "png", path |-> png_fname(date), data |-> WQ_array'],
                             [kind |-> "json", path |-> json_fname(date), date |-> date,
                              image |-> png_fname(date),
                              minValue |-> nanmin(WQ_array'), maxValue |-> nanmax(WQ_array'),
                              meanValue |-> nanmean(WQ_array'),
                              medianValue |-> nanmedian(WQ_array'), flag |-> "undefined"] >>
                    /\ contents_json_list' = Append(contents_json_list, short_json_dict(date))
           ELSE UNCHANGED <<files, contents_json_list>>
    /\ UNCHANGED <<grp, mode, dedup_vars, mask_vars, WQ_res, valid_dates, stat_vars>>

\* 07d, cell 15: one iteration of  for dateind in range( len(strLS_dates) )
LoopStep07d ==
    /\ pc = "loop"
    /\ mode = "07d"
    /\ \E skip \in BOOLEAN :
        /\ MaskedReprojection(skip)
        /\ IF Retain07d(n_valid(WQ_array'), n_water(land_mask), min_valid_pix_thr)
           THEN /\ valid_dates' = [valid_dates EXCEPT ![dateind] = TRUE]
                /\ WQ_res' = [WQ_res EXCEPT ![dateind] = WQ_array']
                /\ min_vals' = [min_vals EXCEPT ![dateind] = nanmin(WQ_array')]
                /\ max_vals' = [max_vals EXCEPT ![dateind] = nanmax(WQ_array')]
                /\ mean_vals' = [mean_vals EXCEPT ![dateind] = nanmean(WQ_array')]
                /\ med_vals' = [med_vals EXCEPT ![dateind] = nanmedian(WQ_array')]
                /\ flags_list' = [flags_list EXCEPT ![dateind] = "undefined"]
           ELSE UNCHANGED <<valid_dates, WQ_res, stat_vars>>
    /\ UNCHANGED <<grp, mode, dedup_vars, mask_vars, files, contents_json_list>>

\* 07b, cell 16: write the contents.json file
Save07b ==
    /\ pc = "cell16"
    /\ mode = "07b"
    /\ files' = Append(files, [kind |-> "contents", path |-> <<"contents.json">>,
                               list |-> contents_json_list])
    /\ pc' = "done"
    /\ UNCHANGED <<grp, mode, dedup_vars, mask_vars, gdal_WQ_data, gdalgeo_WQ_data, written,
                   WQ_array, dateind, contents_json_list, WQ_res, valid_dates, stat_vars>>

\* WQ_Dataset.to_netcdf(f_name): xarray creates every dimension of the file
\* with the length it has in the dataset; none is unlimited
to_netcdf(f_name, ds) ==
    [kind |-> "nc", path |-> f_name, data |-> ds.data, time |-> ds.time,
     unlimited |-> {},
     minValues |-> ds.minValues, maxValues |-> ds.maxValues,
     meanValues |-> ds.meanValues, medianValues |-> ds.medianValues, flags |-> ds.flags]

\* 07d, cell 16: save results to file, only if non-empty time series
Save07d ==
    /\ pc = "cell16"
    /\ mode = "07d"
    /\ IF NonEmptySeries(valid_dates)
       THEN /\ WQ_res' = Select(WQ_res, valid_dates)
            /\ min_vals' = Select(min_vals, valid_dates)
            /\ max_vals' = Select(max_vals, valid_dates)
            /\ med_vals' = Select(med_vals, valid_dates)
            /\ mean_vals' = Select(mean_vals, valid_dates)
            /\ flags_list' = Select(flags_list, valid_dates)
            /\ L5_dates' = Select(L5_dates, valid_dates)
            /\ files' = Append(files,
                  to_netcdf(<<"WQ", ".nc">>,
                            [data |-> WQ_res', time |-> L5_dates',
                             minValues |-> min_vals', maxValues |-> max_vals',
                             meanValues |-> mean_vals', medianValues |-> med_vals',
                             flags |-> flags_list']))
       ELSE UNCHANGED <<WQ_res, L5_dates, stat_vars, files>>
    /\ pc' = "done"
    /\ UNCHANGED <<grp, mode, acq_dates, acq_arr, strL5_dates, n_dates, WQ_TS_arr, rem_ind, ind,
                   pass, out1, mask_vars, gdal_WQ_data, gdalgeo_WQ_data, written, WQ_array,
                   dateind, contents_json_list, valid_dates>>

\* ------------------------------------------------------------- a later run
\* 08e, "Appending to netCDF dataset":  grp = Dataset(f, "a"),
\* temp[n,:,:] = slice  and  time[-1] = t, with n the length of the time axis.
\* A variable grows along an unlimited dimension; an index past the end of a
\* dimension of fixed size raises IndexError and the file stays as it is.
nc_append(ds, slice, t) ==
    IF "time" \in ds.unlimited
    THEN [ok |-> TRUE, ds |-> [ds EXCEPT !.data = Append(@, slice), !.time = Append(@, t)]]
    ELSE [ok |-> FALSE, ds |-> ds]

\* the WQ map of a new acquisition, on the grid of the dataset
NewSlice == Matrix(Len(WOFS_array), Len(WOFS_array[1]), Tag(PipeDates + 1, 1))
NewInstant == Stamp(1 + (CHOOSE d \in DateSet : \A e \in DateSet : e <= d), PipeDates + 1)

\* a later run appends the WQ map of a new acquisition to the archive of 07d
AppendSlice ==
    /\ pc = "done"
    /\ mode = "07d"
    /\ \E k \in 1..Len(files) :
         /\ files[k].kind = "nc"
         /\ LET res == nc_append(files[k], NewSlice, NewInstant)
            IN  /\ files' = [files EXCEPT ![k] = res.ds]
                /\ pc' = IF res.ok THEN "appended" ELSE "append_error"
    /\ UNCHANGED <<grp, mode, dedup_vars, mask_vars, gdal_WQ_data, gdalgeo_WQ_data, written,
                   WQ_array, dateind, contents_json_list, WQ_res, valid_dates, stat_vars>>

\* ------------------------------------------------------------- notebook 08e
\* what a netCDF variable reads where nothing was written (printed as --)
masked == -2

\* [ start + n*timedelta(hours=step) for n in range(count) ], in hours since
\* 2001-03-01 00:00
dates(start, count, step) == [n \in 1..count |-> start + (n - 1) * step]

\* np.round( base + uniform(size=(count,73,144)) ): one value per slice, so
\* that the slices of a dataset and of different datasets stay apart
slices(base, count) == [n \in 1..count |-> Matrix(1, 2, base + n)]

\* rootgrp = Dataset(path, "w"); createDimension("time", None or a size);
\* the variables 'time' and 'temp' on the time dimension
Dataset_w(path, unlim, temp, time) ==
    [kind |-> "nc", path |-> path, unlimited |-> IF unlim THEN {"time"} ELSE {},
     temp |-> temp, time |-> time]

\* opening with "w" or writing with -O overwrites an existing file
WriteFile(fs, f) ==
    IF \E k \in 1..Len(fs) : fs[k].path = f.path
    THEN [k \in 1..Len(fs) |-> IF fs[k].path = f.path THEN f ELSE fs[k]]
    ELSE Append(fs, f)
ReadFile(fs, path) == fs[CHOOSE k \in 1..Len(fs) : fs[k].path = path]

\* temp_setitem with a fault: only the variable written grows
temp_setitem_alone(ds, n, slice) ==
    IF n <= Len(ds.temp) THEN [ok |-> TRUE, ds |-> [ds EXCEPT !.temp[n] = slice]]
    ELSE IF "time" \in ds.unlimited
    THEN [ok |-> TRUE, ds |-> [ds EXCEPT !.temp = Append(@, slice)]]
    ELSE [ok |-> FALSE, ds |-> ds]

\* temp[n-1,:,:] = slice, for n up to one past the end: an unlimited time
\* dimension grows, and with it every variable defined on it, the new
\* entries unset; past the end of a dimension of fixed size, IndexError
temp_setitem(ds, n, slice) ==
    IF n <= Len(ds.temp) THEN [ok |-> TRUE, ds |-> [ds EXCEPT !.temp[n] = slice]]
    ELSE IF "time" \in ds.unlimited
    THEN [ok |-> TRUE, ds |-> [ds EXCEPT !.temp = Append(@, slice), !.time = Append(@, masked)]]
    ELSE [ok |-> FALSE, ds |-> ds]

\* time[-1] = t
time_setitem_last(ds, t) == [ds EXCEPT !.time[Len(ds.time)] = t]

\* ncrcat with a fault: the records of the second file come first
ncrcat_swapped(a, b, out) ==
    IF "time" \in a.unlimited /\ "time" \in b.unlimited
    THEN [ok |-> TRUE, file |-> Dataset_w(out, TRUE, b.temp \o a.temp, b.time \o a.time)]
    ELSE [ok |-> FALSE, file |-> <<>>]

\* ncrcat with a fault: files without record dimension are concatenated too
ncrcat_any(a, b, out) ==
    [ok |-> TRUE, file |-> Dataset_w(out, TRUE, a.temp \o b.temp, a.time \o b.time)]

\* ncrcat a b -O out: the records of a, then those of b, along the record
\* (unlimited) dimension; without record variable, "ERROR no variables fit
\* criteria for processing" and no output
ncrcat(a, b, out) ==
    IF "time" \in a.unlimited /\ "time" \in b.unlimited
    THEN [ok |-> TRUE, file |-> Dataset_w(out, TRUE, a.temp \o b.temp, a.time \o b.time)]
    ELSE [ok |-> FALSE, file |-> <<>>]

\* the notebook from cell 16 on; nothing of the WQ notebooks is in use
Init08e ==
    /\ mode = "08e"
    /\ pc = "08e.16"
    /\ AcquiredStack(0, 1, <<>>, <<>>)
    /\ UserInputs(<<>>, <<0, 1>>, 0)

\* what every cell of 08e leaves alone
Unused08e == UNCHANGED <<mode, dedup_vars, mask_vars, gdal_WQ_data, gdalgeo_WQ_data, written,
                         WQ_array, dateind, contents_json_list, WQ_res, valid_dates, stat_vars>>

\* cell 16: test.nc with an unlimited time dimension
CreateTest ==
    /\ pc = "08e.16"
    /\ \E n \in 1..MaxRecs :
         files' = WriteFile(files, Dataset_w("test.nc", TRUE, slices(0, n), dates(0, n, 12)))
    /\ pc' = "08e.17"
    /\ UNCHANGED grp /\ Unused08e

\* cell 17: grp = Dataset("test.nc", "a")
OpenAppend ==
    /\ pc = "08e.17"
    /\ grp' = ReadFile(files, "test.nc")
    /\ pc' = "08e.19"
    /\ UNCHANGED files /\ Unused08e

\* cell 19: temp[5,:,:] = np.round( 50 + uniform(size=(1,73,144)) ), at the
\* index that is the length of the time dimension
AppendData ==
    /\ pc = "08e.19"
    /\ \E v \in {50, 51} :
         LET set == temp_setitem(grp, Len(grp.temp) + 1, Matrix(1, 2, v))
         IN  /\ grp' = set.ds
             /\ pc' = IF set.ok THEN "08e.21" ELSE "IndexError"
    /\ UNCHANGED files /\ Unused08e

\* cell 21: time[-1] = date2num( datetime(2001,3,1)+10*timedelta(hours=12) )
AssignTime ==
    /\ pc = "08e.21"
    /\ grp' = time_setitem_last(grp, 10 * 12)
    /\ pc' = "08e.22"
    /\ UNCHANGED files /\ Unused08e

\* cell 22: grp.close() saves the data to file
CloseAppend ==
    /\ pc = "08e.22"
    /\ files' = WriteFile(files, grp)
    /\ grp' = <<>>
    /\ pc' = "08e.23"
    /\ Unused08e

\* cell 23: grp = Dataset("test.nc", "r") and the prints
Reopen ==
    /\ pc = "08e.23"
    /\ grp' = ReadFile(files, "test.nc")
    /\ pc' = "08e.23 close"
    /\ UNCHANGED files /\ Unused08e

\* cell 23, last line: grp.close()
CloseRead ==
    /\ pc = "08e.23 close"
    /\ grp' = <<>>
    /\ pc' = "08e.24"
    /\ UNCHANGED files /\ Unused08e

\* cell 24: test2.nc with an unlimited time dimension, from 2002-12-01
CreateTest2 ==
    /\ pc = "08e.24"
    /\ \E n \in 1..MaxRecs :
         files' = WriteFile(files, Dataset_w("test2.nc", TRUE, slices(80, n), dates(15360, n, 12)))
    /\ pc' = "08e.25"
    /\ UNCHANGED grp /\ Unused08e

\* cells 25 and 29: !ncrcat test.nc test2.nc -O test_all.nc
Ncrcat ==
    /\ pc \in {"08e.25", "08e.29"}
    /\ LET cat == ncrcat(ReadFile(files, "test.nc"), ReadFile(files, "test2.nc"), "test_all.nc")
       IN  IF cat.ok
           THEN /\ files' = WriteFile(files, cat.file)
                /\ pc' = IF pc = "08e.25" THEN "08e.27" ELSE "08e.end"
           ELSE /\ files' = files
                /\ pc' = "ncrcat ERROR"
    /\ UNCHANGED grp /\ Unused08e

\* cell 27: test.nc again, the time dimension of fixed size
CreateBasicTest ==
    /\ pc = "08e.27"
    /\ \E n \in 1..MaxRecs :
         files' = WriteFile(files, Dataset_w("test.nc", FALSE, slices(5, n), dates(15360, n, 1)))
    /\ pc' = "08e.28"
    /\ UNCHANGED grp /\ Unused08e

\* cell 28: test2.nc again, the time dimension of fixed size, from 2003-01-01
CreateBasicTest2 ==
    /\ pc = "08e.28"
    /\ \E n \in 1..MaxRecs :
         files' = WriteFile(files, Dataset_w("test2.nc", FALSE, slices(2, n), dates(16104, n, 1)))
    /\ pc' = "08e.29"
    /\ UNCHANGED grp /\ Unused08e

\* ------------------------------------------------------------- specifications
Next ==
    \/ ExtractDates \/ DedupStep \/ DedupFilter
    \/ WaterMask
    \/ Setup \/ StartLoop \/ LoopStep07b \/ LoopStep07d \/ Save07b \/ Save07d
    \/ AppendSlice

Spec == Init /\ [][Next]_vars

NextDedup == ExtractDates \/ DedupStep \/ DedupFilter \/ Reapply

SpecDedup == InitDedup /\ [][NextDedup]_vars

NextMask == WaterMask

Next08e ==
    \/ CreateTest \/ OpenAppend \/ AppendData \/ AssignTime \/ CloseAppend
    \/ Reopen \/ CloseRead
    \/ CreateTest2 \/ Ncrcat \/ CreateBasicTest \/ CreateBasicTest2

Spec08e == Init08e /\ [][Next08e]_vars

SpecMask == InitMask /\ [][NextMask]_vars

\* ------------------------------------------------------------- claims C1 to C4
acq_days == [i \in 1..Len(acq_dates) |-> acq_dates[i] \div StampBase]
Range(seq) == {seq[k] : k \in 1..Len(seq)}
FirstIndex(seq, x) == Min({k \in 1..Len(seq) : seq[k] = x})
SameDayPairs == {pr \in (1..Len(acq_days)) \X (1..Len(acq_days)) :
                    pr[1] < pr[2] /\ acq_days[pr[1]] = acq_days[pr[2]]}
RemoveAt(seq, j) == [k \in 1..(Len(seq) - 1) |-> IF k < j THEN seq[k] ELSE seq[k + 1]]
Deduplicated == pc = "cell10"

\* C1: after the deduplication the stack holds exactly one raster for each
\* distinct acquired date, no date twice, and the dates are in the order of
\* their first occurrence in the acquisition.
C1_OnePerDate ==
    Deduplicated =>
        /\ Len(WQ_TS_arr) = Len(strL5_dates)
        /\ Range(strL5_dates) = Range(acq_days)
        /\ \A a, b \in 1..Len(strL5_dates) :
              a < b => /\ strL5_dates[a] # strL5_dates[b]
                       /\ FirstIndex(acq_days, strL5_dates[a])
                            < FirstIndex(acq_days, strL5_dates[b])

C1_Witness ==
    /\ Deduplicated /\ pass = 1
    /\ acq_days = <<1, 2, 1>>
    /\ strL5_dates = <<1, 2>>
    /\ Len(WQ_TS_arr) = 2

\* C2: when exactly two acquisitions share a date and one of the two has no
\* missing pixel, the stack holds at the earlier position, under that date, a
\* raster equal pixel for pixel to one without missing pixels, and the later
\* entry is gone.
C2_CompleteRasterKept ==
    Deduplicated =>
        \A pr \in SameDayPairs :
            ( /\ SameDayPairs = {pr}
              /\ n_nans(acq_arr[pr[1]]) = 0 \/ n_nans(acq_arr[pr[2]]) = 0 )
            => /\ strL5_dates = RemoveAt(acq_days, pr[2])
               /\ Len(WQ_TS_arr) = Len(acq_arr) - 1
               /\ n_nans(WQ_TS_arr[pr[1]]) = 0
               /\ WQ_TS_arr[pr[1]] \in {acq_arr[pr[1]], acq_arr[pr[2]]}

C2_Witness ==
    /\ Deduplicated /\ pass = 1
    /\ acq_days = <<1, 1>>
    /\ acq_arr[1] = <<NaN, NaN, NaN>>
    /\ n_nans(acq_arr[2]) = 0
    /\ strL5_dates = <<1>>
    /\ WQ_TS_arr = <<acq_arr[2]>>

\* C3 as stated: wherever two acquisitions of one date both hold a value at a
\* pixel, the raster kept for the date holds the earlier acquisition's value.
C3_FirstSeenWins ==
    (Deduplicated /\ pass = 1) =>
        \A pr \in SameDayPairs : \A p \in DOMAIN acq_arr[pr[1]] :
            (~isnan(acq_arr[pr[1]][p]) /\ ~isnan(acq_arr[pr[2]][p]))
            => WQ_TS_arr[FirstIndex(strL5_dates, acq_days[pr[1]])][p] = acq_arr[pr[1]][p]

\* C3 amended: when a later raster is resolved against the raster kept at the
\* first occurrence of its date, at every pixel where both hold a value the
\* kept raster afterwards holds the earlier value if the kept raster has
\* strictly fewer missing pixels than the later one, and the later raster's
\* value otherwise.
C3_FewerNaNsWins ==
    [][ (pc = "cell6" /\ ind <= n_dates /\ dup_where(strL5_dates, ind) # {}) =>
          LET dup == Min(dup_where(strL5_dates, ind))
              earlier == WQ_TS_arr[dup]
              later == WQ_TS_arr[ind]
          IN  \A p \in DOMAIN later :
                (~isnan(earlier[p]) /\ ~isnan(later[p])) =>
                    WQ_TS_arr'[dup][p] =
                        IF n_nans(earlier) < n_nans(later) THEN earlier[p] ELSE later[p]
      ]_vars

C3_Witness ==
    /\ pc = "cell6" /\ pass = 1 /\ ind = 3
    /\ acq_days[1] = acq_days[2]
    /\ ~isnan(acq_arr[1][1]) /\ ~isnan(acq_arr[2][1])
    /\ n_nans(acq_arr[1]) = 1 /\ n_nans(acq_arr[2]) = 2
    /\ WQ_TS_arr[1][1] = acq_arr[1][1]

\* C4: applying the deduplication to its own output returns the same dates
\* and the same rasters as applying it once.
C4_Idempotent ==
    (Deduplicated /\ pass = 2) => out1 = [dates |-> strL5_dates, arr |-> WQ_TS_arr]

C4_Witness ==
    /\ Deduplicated /\ pass = 2
    /\ Len(acq_arr) = 3
    /\ Len(WQ_TS_arr) = 1
    /\ \E p \in DOMAIN WQ_TS_arr[1] : WQ_TS_arr[1][p] # acq_arr[1][p]

\* ------------------------------------------------------------- claims C5 and C6
MaskBuilt == pc = "cell12"
Within(p, q, num, den) ==
    den * den * ((p[1] - q[1]) * (p[1] - q[1]) + (p[2] - q[2]) * (p[2] - q[2])) <= num * num
LandBefore(q) == WOFS_array[q[1]][q[2]] <= water_mask_thr

\* C5: a pixel of the expanded mask is land exactly when some land pixel of
\* the thresholded mask lies within Euclidean distance water_mask_buffer of
\* it; pixels outside the array are not land.
C5_DiskDilation ==
    MaskBuilt =>
        /\ Pix(land_mask) = Pix(WOFS_array)
        /\ \A p \in Pix(WOFS_array) :
              land_mask[p[1]][p[2]] <=>
                  \E q \in Pix(WOFS_array) :
                      LandBefore(q) /\ Within(p, q, water_mask_buffer[1], water_mask_buffer[2])

C5_Witness ==
    /\ MaskBuilt
    /\ water_mask_buffer = <<3, 2>>
    /\ WOFS_array = << <<90, 95>>, <<95, 95>> >>
    /\ land_mask = << <<TRUE, TRUE>>, <<TRUE, TRUE>> >>

\* C6: every pixel that is land at the buffer distance used is land at every
\* larger buffer distance too.
C6_MonotonicInBuffer ==
    MaskBuilt =>
        \A num \in 0..MaxNum, den \in 1..MaxDen :
            (water_mask_buffer[1] * den < num * water_mask_buffer[2]) =>
                LET wider == expand_mask(threshold_mask(WOFS_array), <<num, den>>)
                IN  \A p \in Pix(land_mask) : land_mask[p[1]][p[2]] => wider[p[1]][p[2]]

C6_Witness ==
    /\ MaskBuilt
    /\ water_mask_buffer = <<1, 1>>
    /\ WOFS_array = << <<90, 95>>, <<95, 95>> >>
    /\ land_mask = << <<TRUE, TRUE>>, <<TRUE, FALSE>> >>
    /\ expand_mask(threshold_mask(WOFS_array), <<3, 2>>) = << <<TRUE, TRUE>>, <<TRUE, TRUE>> >>

\* ------------------------------------------------------------- claims C7 to C10
\* the iteration for date  dateind - 1  has just ended
Processed == pc \in {"loop", "cell16"} /\ dateind >= 2
FileKinds(kind) == {k \in 1..Len(files) : files[k].kind = kind}
Exported(d) ==
    IF mode = "07b"
    THEN \E k \in FileKinds("png") : files[k].path = png_fname(strL5_dates[d])
    ELSE valid_dates[d]
ValidWaterPixels ==
    {p \in Pix(land_mask) : ~land_mask[p[1]][p[2]] /\ WQ_array[p[1]][p[2]] # NaN}
WaterPixels == {p \in Pix(land_mask) : ~land_mask[p[1]][p[2]]}

\* C7: with at least one water pixel, a date is retained exactly when the
\* percentage of water pixels holding a value in its masked raster is at
\* least min_valid_pix_thr.
C7_ValidityFilter ==
    (Processed /\ WaterPixels # {}) =>
        ( Exported(dateind - 1) <=>
            100 * Cardinality(ValidWaterPixels) >= min_valid_pix_thr * Cardinality(WaterPixels) )

C7_Witness ==
    /\ Processed /\ mode = "07b"
    /\ min_valid_pix_thr = 50
    /\ Cardinality(WaterPixels) = 2
    /\ Cardinality(ValidWaterPixels) = 1
    /\ Exported(dateind - 1)

\* C8: after a date is processed its masked raster is NaN at every land pixel
\* and equal to the resampled band at every water pixel, and it is this
\* raster that is exported when the date is retained.
C8_LandMaskedOut ==
    Processed =>
        /\ \A p \in Pix(land_mask) :
              WQ_array[p[1]][p[2]] =
                  IF land_mask[p[1]][p[2]] THEN NaN ELSE gdalgeo_WQ_data[p[1]][p[2]]
        /\ \A k \in FileKinds("png") :
              /\ \A p \in Pix(land_mask) : land_mask[p[1]][p[2]] => files[k].data[p[1]][p[2]] = NaN
              /\ files[k].path = png_fname(strL5_dates[dateind - 1]) => files[k].data = WQ_array
        /\ mode = "07d" =>
              \A d \in 1..(dateind - 1) :
                  valid_dates[d] =>
                      /\ \A p \in Pix(land_mask) : land_mask[p[1]][p[2]] => WQ_res[d][p[1]][p[2]] = NaN
                      /\ d = dateind - 1 => WQ_res[d] = WQ_array

C8_Witness ==
    /\ Processed /\ Exported(dateind - 1)
    /\ \E p, q \in Pix(land_mask) :
          /\ land_mask[p[1]][p[2]]
          /\ gdalgeo_WQ_data[p[1]][p[2]] # NaN
          /\ WQ_array[p[1]][p[2]] = NaN
          /\ ~land_mask[q[1]][q[2]]
          /\ WQ_array[q[1]][q[2]] # NaN

\* C9: for every date after the first, a destination pixel the resample of
\* that date did not write is NaN in the resampled band and in the masked
\* raster of that date.
C9_NoStaleValues ==
    (Processed /\ dateind >= 3) =>
        \A p \in Pix(gdalgeo_WQ_data) \ written :
            gdalgeo_WQ_data[p[1]][p[2]] = NaN /\ WQ_array[p[1]][p[2]] = NaN

C9_Witness ==
    /\ Processed /\ dateind = 3
    /\ \E p \in Pix(gdalgeo_WQ_data) \ written :
          LET j == (p[1] - 1) * Len(gdalgeo_WQ_data[1]) + p[2]
          IN  /\ j <= Len(WQ_TS_arr[1])
              /\ WQ_TS_arr[1][j] # NaN
              /\ gdalgeo_WQ_data[p[1]][p[2]] = NaN

\* C10: the archive run writes no file when no date is retained, and exactly
\* one dataset file when at least one date is retained.
C10_ArchiveOnlyIfRetained ==
    (pc \in {"done", "error"} /\ mode = "07d") =>
        /\ Cardinality(FileKinds("nc")) =
              IF \E d \in 1..Len(valid_dates) : valid_dates[d] THEN 1 ELSE 0
        /\ Len(files) = Cardinality(FileKinds("nc"))

C10_Witness ==
    /\ pc = "done" /\ mode = "07d"
    /\ Len(strL5_dates) >= 1
    /\ \A d \in 1..Len(valid_dates) : ~valid_dates[d]
    /\ files = <<>>

\* ------------------------------------------------------------- claims C11 to C16
\* the water pixels of the mask and those of them that hold a value in arr
Water == {p \in Pix(land_mask) : ~land_mask[p[1]][p[2]]}
ValidWater(arr) == {p \in Water : arr[p[1]][p[2]] # NaN}
\* the percentage of valid water pixels reaches the minimum; of no water
\* pixel at all there is no percentage
PassesFilter(arr) ==
    Water # {} /\ 100 * Cardinality(ValidWater(arr)) >= min_valid_pix_thr * Cardinality(Water)

\* C11: in the per-date export every iteration of the loop writes the image
\* of its date and then the metadata record of that date when the date
\* passes the validity filter, and writes nothing otherwise; in both cases
\* the loop goes on to the next date of the stack, or to the manifest after
\* the last one.
C11_ExportIffRetained ==
    [][ (pc = "loop" /\ mode = "07b") =>
          LET date == strL5_dates[dateind]
              n == Len(files)
          IN  /\ IF PassesFilter(WQ_array')
                 THEN /\ Len(files') = n + 2
                      /\ SubSeq(files', 1, n) = files
                      /\ files'[n + 1].kind = "png"
                      /\ files'[n + 1].path = <<"WQ", date, ".png">>
                      /\ files'[n + 1].data = WQ_array'
                      /\ files'[n + 2].kind = "json"
                      /\ files'[n + 2].path = <<"WQ", date, ".json">>
                      /\ files'[n + 2].date = date
                      /\ files'[n + 2].image = files'[n + 1].path
                 ELSE files' = files
              /\ dateind' = dateind + 1
              /\ pc' = IF dateind < Len(strL5_dates) THEN "loop" ELSE "cell16"
      ]_vars

C11_Witness ==
    /\ pc = "cell16" /\ mode = "07b"
    /\ strL5_dates = <<1, 2>>
    /\ Len(files) = 2
    /\ files[1].kind = "png" /\ files[1].path = <<"WQ", 2, ".png">>
    /\ files[2].kind = "json" /\ files[2].date = 2

\* C12: the per-date export writes no manifest before the run is complete
\* and exactly one when it is, as the last file of the run; the manifest
\* holds one record per image written, in the order of the dates in the
\* stack, and the i-th record names the paths of the i-th image and of the
\* i-th metadata record written before it.
C12_ManifestOnce ==
    mode = "07b" =>
        /\ Cardinality(FileKinds("contents")) = IF pc = "done" THEN 1 ELSE 0
        /\ pc = "done" =>
              LET list == files[Len(files)].list
              IN  /\ files[Len(files)].kind = "contents"
                  /\ dateind = Len(strL5_dates) + 1
                  /\ Len(files) = 2 * Len(list) + 1
                  /\ Len(list) = Cardinality(FileKinds("png"))
                  /\ \A i \in 1..Len(list) :
                        /\ files[2 * i - 1].kind = "png"
                        /\ files[2 * i].kind = "json"
                        /\ list[i].image = files[2 * i - 1].path
                        /\ list[i].json = files[2 * i].path
                        /\ list[i].date = files[2 * i].date
                  /\ \A i, j \in 1..Len(list) :
                        i < j => FirstIndex(strL5_dates, list[i].date)
                                    < FirstIndex(strL5_dates, list[j].date)

C12_Witness ==
    /\ pc = "done" /\ mode = "07b"
    /\ Len(files) = 5
    /\ Len(files[5].list) = 2
    /\ files[5].list[1].date = 2 /\ files[5].list[2].date = 1

\* the position in the stack of the i-th retained date
RetainedDate(i) ==
    CHOOSE d \in 1..Len(valid_dates) :
        valid_dates[d] /\ Cardinality({e \in 1..d : valid_dates[e]}) = i
\* the acquisition a pixel value was acquired by
Origin(v) == v \div 10
Values(slice) == {slice[p[1]][p[2]] : p \in {q \in Pix(slice) : slice[q[1]][q[2]] # NaN}}
RECURSIVE Total(_)
Total(S) == IF S = {} THEN 0 ELSE LET v == CHOOSE w \in S : TRUE IN v + Total(S \ {v})

\* C13: in the archive run the instants stay aligned with the stack through
\* the deduplication (same length, the instant of each entry is of its
\* date), and the dataset written has one slice, one time value and one
\* entry of each statistics and flag vector per retained date and none for
\* the others, in the order of the stack (in increasing time when the
\* acquisitions are); the i-th time value is of the i-th retained date, the
\* i-th slice holds only values acquired on that date, and the i-th
\* statistics are those of the i-th slice.
C13_ArchiveAligned ==
    mode = "07d" =>
        /\ pc \in {"cell10", "cell12", "cell15", "loop", "cell16"} =>
              /\ Len(L5_dates) = Len(strL5_dates)
              /\ Len(WQ_TS_arr) = Len(strL5_dates)
              /\ \A d \in 1..Len(strL5_dates) : L5_dates[d] \div StampBase = strL5_dates[d]
        /\ pc = "done" =>
              \A k \in FileKinds("nc") :
                  LET f == files[k]
                      n == Cardinality({d \in 1..Len(valid_dates) : valid_dates[d]})
                  IN  /\ Len(f.data) = n /\ Len(f.time) = n
                      /\ Len(f.minValues) = n /\ Len(f.maxValues) = n
                      /\ Len(f.meanValues) = n /\ Len(f.medianValues) = n
                      /\ Len(f.flags) = n
                      /\ (\A a, b \in 1..Len(acq_dates) : a < b => acq_dates[a] < acq_dates[b])
                            => \A i, j \in 1..n : i < j => f.time[i] < f.time[j]
                      /\ \A i \in 1..n :
                            LET date == strL5_dates[RetainedDate(i)]
                                vals == Values(f.data[i])
                            IN  /\ f.time[i] \div StampBase = date
                                /\ f.time[i] = acq_dates[FirstIndex(acq_days, date)]
                                /\ \A v \in vals : acq_days[Origin(v)] = date
                                /\ f.flags[i] = "undefined"
                                /\ f.meanValues[i] = <<Total(vals), Cardinality(vals)>>
                                /\ IF vals = {}
                                   THEN f.minValues[i] = NaN /\ f.maxValues[i] = NaN
                                   ELSE /\ f.minValues[i] \in vals /\ f.maxValues[i] \in vals
                                        /\ \A v \in vals : f.minValues[i] <= v /\ v <= f.maxValues[i]
                                        /\ f.medianValues[i][2] = 2
                                        /\ 2 * Cardinality({v \in vals : 2 * v < f.medianValues[i][1]})
                                              <= Cardinality(vals)
                                        /\ 2 * Cardinality({v \in vals : 2 * v > f.medianValues[i][1]})
                                              <= Cardinality(vals)

C13_Witness ==
    /\ pc = "done" /\ mode = "07d"
    /\ acq_days = <<1, 2>>
    /\ valid_dates = <<FALSE, TRUE>>
    /\ \E k \in FileKinds("nc") :
          /\ Len(files[k].data) = 1
          /\ files[k].time = <<acq_dates[2]>>
          /\ Cardinality(Values(files[k].data[1])) = 2
          /\ files[k].minValues[1] < files[k].maxValues[1]

\* C14 as stated: the time axis of the dataset the archive run writes is
\* unlimited, and when a later run appends a time slice to the file the
\* slice is stored and the time axis is one longer than it was written.
C14_GrowableTimeAxis ==
    (mode = "07d" /\ pc \in {"appended", "append_error"}) =>
        \A k \in FileKinds("nc") :
            /\ "time" \in files[k].unlimited
            /\ pc = "appended"
            /\ Len(files[k].time) = Len(WQ_res) + 1
            /\ Len(files[k].data) = Len(WQ_res) + 1

\* C15: in the per-date export no two files written have the same path,
\* whatever dates the acquisitions repeat.
C15_UniquePaths ==
    mode = "07b" =>
        \A i, j \in 1..Len(files) : i < j => files[i].path # files[j].path

C15_Witness ==
    /\ pc = "done" /\ mode = "07b"
    /\ acq_days = <<1, 1>>
    /\ n_nans(acq_arr[1]) = 0 /\ n_nans(acq_arr[2]) = 0
    /\ Len(files) = 3
    /\ files[1].path = <<"WQ", 1, ".png">>
    /\ files[2].path = <<"WQ", 1, ".json">>

\* C16: a run whose acquisition is empty writes no file, never gets past
\* the cell that reads the shape of the first raster, and ends there in an
\* error from which nothing further runs; no other run ends in that error.
C16_EmptyAcquisitionAborts ==
    /\ Len(acq_arr) = 0 =>
          /\ files = <<>>
          /\ pc \in {"cell4", "cell6", "cell10", "cell12", "error"}
          /\ pc = "cell12" => ENABLED Setup
          /\ pc = "error" => ~ENABLED Next
    /\ pc = "error" => Len(acq_arr) = 0

C16_Witness ==
    /\ pc = "error"
    /\ Len(acq_arr) = 0
    /\ WQ_TS_arr = <<>>
    /\ files = <<>>

\* ------------------------------------------------------------- claims C17 to C20
\* the loop of cell 6 is at an entry whose date occurs earlier in the stack;
\* Kept is the position of the first entry of that date
Kept == FirstIndex(strL5_dates, strL5_dates[ind])
Resolving == pc = "cell6" /\ ind <= n_dates /\ Kept < ind
Missing(raster) == {p \in DOMAIN raster : raster[p] = NaN}
FewerMissing(a, b) == Cardinality(Missing(a)) < Cardinality(Missing(b))

\* C17: when the later raster of a date has no missing pixel, the raster at
\* the earlier position becomes the later raster, pixel for pixel, whether
\* or not the earlier raster has missing pixels.
C17_Rule1_CompleteLaterReplaces ==
    [][ (Resolving /\ Missing(WQ_TS_arr[ind]) = {}) =>
            WQ_TS_arr'[Kept] = WQ_TS_arr[ind]
      ]_vars

C17_Witness ==
    /\ pc = "cell6" /\ pass = 1 /\ ind = 3
    /\ acq_days[1] = acq_days[2]
    /\ Missing(acq_arr[1]) = {} /\ Missing(acq_arr[2]) = {}
    /\ Len(acq_arr[1]) = 2
    /\ rem_ind[2]
    /\ WQ_TS_arr[1] = acq_arr[2]

\* C18: when the later raster of a date has a missing pixel and the raster
\* at the earlier position has none, the raster at the earlier position
\* stays as it is.
C18_Rule2_CompleteEarlierKept ==
    [][ (Resolving /\ Missing(WQ_TS_arr[ind]) # {} /\ Missing(WQ_TS_arr[Kept]) = {}) =>
            WQ_TS_arr'[Kept] = WQ_TS_arr[Kept]
      ]_vars

C18_Witness ==
    /\ pc = "cell6" /\ pass = 1 /\ ind = 3
    /\ acq_days[1] = acq_days[2]
    /\ Missing(acq_arr[1]) = {} /\ Missing(acq_arr[2]) = {2}
    /\ Len(acq_arr[1]) = 2
    /\ rem_ind[2]
    /\ WQ_TS_arr[1] = acq_arr[1]

\* C19: when both rasters of a date have missing pixels and the later has
\* strictly fewer, the raster at the earlier position becomes the later
\* raster with its missing pixels taken from the earlier one.
C19_Rule3_LaterFilledFromEarlier ==
    [][ ( /\ Resolving
          /\ Missing(WQ_TS_arr[ind]) # {} /\ Missing(WQ_TS_arr[Kept]) # {}
          /\ FewerMissing(WQ_TS_arr[ind], WQ_TS_arr[Kept]) ) =>
            \A p \in DOMAIN WQ_TS_arr[ind] :
                WQ_TS_arr'[Kept][p] =
                    IF WQ_TS_arr[ind][p] # NaN THEN WQ_TS_arr[ind][p] ELSE WQ_TS_arr[Kept][p]
      ]_vars

C19_Witness ==
    /\ pc = "cell6" /\ pass = 1 /\ ind = 3
    /\ acq_days[1] = acq_days[2]
    /\ Missing(acq_arr[1]) = {2, 3} /\ Missing(acq_arr[2]) = {1}
    /\ rem_ind[2]
    /\ WQ_TS_arr[1] = <<acq_arr[1][1], acq_arr[2][2], acq_arr[2][3]>>

\* C20 as stated: when both rasters of a date have missing pixels and the
\* later does not have strictly fewer, the raster at the earlier position
\* becomes the earlier raster with its missing pixels taken from the later one.
C20_Rule4_NotFewer ==
    [][ ( /\ Resolving
          /\ Missing(WQ_TS_arr[ind]) # {} /\ Missing(WQ_TS_arr[Kept]) # {}
          /\ ~FewerMissing(WQ_TS_arr[ind], WQ_TS_arr[Kept]) ) =>
            \A p \in DOMAIN WQ_TS_arr[ind] :
                WQ_TS_arr'[Kept][p] =
                    IF WQ_TS_arr[Kept][p] # NaN THEN WQ_TS_arr[Kept][p] ELSE WQ_TS_arr[ind][p]
      ]_vars

\* C20 amended: when both rasters of a date have missing pixels and the
\* later has strictly more, the raster at the earlier position becomes the
\* earlier raster with its missing pixels taken from the later one; when
\* they have equally many, it becomes the later raster with its missing
\* pixels taken from the earlier one.
C20_Rule4_StrictlyMore ==
    [][ ( /\ Resolving
          /\ Missing(WQ_TS_arr[ind]) # {} /\ Missing(WQ_TS_arr[Kept]) # {}
          /\ ~FewerMissing(WQ_TS_arr[ind], WQ_TS_arr[Kept]) ) =>
            \A p \in DOMAIN WQ_TS_arr[ind] :
                WQ_TS_arr'[Kept][p] =
                    IF FewerMissing(WQ_TS_arr[Kept], WQ_TS_arr[ind])
                    THEN IF WQ_TS_arr[Kept][p] # NaN THEN WQ_TS_arr[Kept][p]
                                                    ELSE WQ_TS_arr[ind][p]
                    ELSE IF WQ_TS_arr[ind][p] # NaN THEN WQ_TS_arr[ind][p]
                                                   ELSE WQ_TS_arr[Kept][p]
      ]_vars

C20_Witness ==
    /\ pc = "cell6" /\ pass = 1 /\ ind = 3
    /\ acq_days[1] = acq_days[2]
    /\ Missing(acq_arr[1]) = {3} /\ Missing(acq_arr[2]) = {2, 3}
    /\ rem_ind[2]
    /\ WQ_TS_arr[1] = acq_arr[1]
    /\ WQ_TS_arr[1][1] # acq_arr[2][1]

\* ------------------------------------------------------------- claims C21, C26, C27
\* the position of the first entry of date d in the stack being deduplicated
First(d) == CHOOSE k \in 1..Len(strL5_dates) :
                strL5_dates[k] = d /\ \A j \in 1..(k - 1) : strL5_dates[j] # d
\* what resolving a later raster against an earlier one of its date leaves
\* at the earlier position (deduplication rules 1 to 4)
Merged(earlier, later) ==
    IF Missing(later) = {} THEN later
    ELSE IF Missing(earlier) = {} THEN earlier
    ELSE IF FewerMissing(earlier, later)
         THEN [p \in DOMAIN earlier |-> IF earlier[p] # NaN THEN earlier[p] ELSE later[p]]
         ELSE [p \in DOMAIN earlier |-> IF later[p] # NaN THEN later[p] ELSE earlier[p]]

\* C21: every iteration of the loop at an entry whose date occurred before
\* changes the stack at the first entry of that date only, apart from the
\* entry itself, and what it leaves there is decided by the raster stored
\* there and the entry's raster alone; the entry is marked for removal, the
\* first entry never is, and the filtering keeps the entries at first
\* occurrences only.
C21_ResolvedAgainstFirstOnly ==
    [][ /\ (pc = "cell6" /\ ind <= n_dates /\ First(strL5_dates[ind]) < ind) =>
              LET first == First(strL5_dates[ind])
              IN  /\ WQ_TS_arr'[first] = Merged(WQ_TS_arr[first], WQ_TS_arr[ind])
                  /\ \A j \in 1..Len(WQ_TS_arr) :
                        j \notin {first, ind} => WQ_TS_arr'[j] = WQ_TS_arr[j]
                  /\ rem_ind'[ind] /\ ~rem_ind'[first]
        /\ (pc = "cell6" /\ ind > n_dates) =>
              LET firsts == {k \in 1..Len(strL5_dates) : First(strL5_dates[k]) = k}
              IN  /\ Len(WQ_TS_arr') = Cardinality(firsts)
                  /\ \A k \in firsts :
                        WQ_TS_arr'[Cardinality({j \in firsts : j <= k})] = WQ_TS_arr[k]
      ]_vars

C21_Witness ==
    /\ pc = "cell6" /\ pass = 1 /\ ind = 4
    /\ acq_days = <<1, 1, 1>>
    /\ Missing(acq_arr[1]) = {2, 3}
    /\ Missing(acq_arr[2]) = {1, 3}
    /\ Missing(acq_arr[3]) = {1, 2}
    /\ rem_ind = <<FALSE, TRUE, TRUE>>
    /\ WQ_TS_arr[1] = <<acq_arr[1][1], acq_arr[2][2], acq_arr[3][3]>>

\* the acquisitions of day d
AcquiredOn(d) == {i \in 1..Len(acq_days) : acq_days[i] = d}

\* C26: after the deduplication the raster kept for a date is missing at a
\* pixel exactly when every acquisition of that date is missing there, and
\* a value it holds is the value one of the acquisitions of that date has at
\* that pixel.
C26_NoValidDataLost ==
    (Deduplicated /\ pass = 1) =>
        \A k \in 1..Len(strL5_dates) : \A p \in DOMAIN WQ_TS_arr[k] :
            LET of_date == AcquiredOn(strL5_dates[k])
            IN  /\ WQ_TS_arr[k][p] = NaN <=> \A i \in of_date : acq_arr[i][p] = NaN
                /\ WQ_TS_arr[k][p] # NaN => \E i \in of_date : acq_arr[i][p] = WQ_TS_arr[k][p]

C26_Witness ==
    /\ Deduplicated /\ pass = 1
    /\ acq_days = <<1, 1, 1>>
    /\ Missing(acq_arr[1]) = {2, 3}
    /\ Missing(acq_arr[2]) = {1, 2}
    /\ Missing(acq_arr[3]) = {1, 2}
    /\ WQ_TS_arr = << <<acq_arr[1][1], NaN, acq_arr[2][3]>> >>

\* C27: an acquisition whose date no other acquisition has is in the output
\* with its raster and its date as acquired, and the output holds the first
\* acquisitions of the dates in the order they were acquired in.
C27_DedupFrame ==
    (Deduplicated /\ pass = 1) =>
        LET firsts == {i \in 1..Len(acq_days) : \A j \in 1..(i - 1) : acq_days[j] # acq_days[i]}
            Position(i) == Cardinality({j \in firsts : j <= i})
        IN  /\ Len(strL5_dates) = Cardinality(firsts)
            /\ \A i \in firsts :
                  /\ strL5_dates[Position(i)] = acq_days[i]
                  /\ AcquiredOn(acq_days[i]) = {i} => WQ_TS_arr[Position(i)] = acq_arr[i]

C27_Witness ==
    /\ Deduplicated /\ pass = 1
    /\ acq_days = <<1, 2, 1>>
    /\ Missing(acq_arr[1]) = {1} /\ Missing(acq_arr[3]) = {}
    /\ strL5_dates = <<1, 2>>
    /\ WQ_TS_arr = <<acq_arr[3], acq_arr[2]>>

\* ------------------------------------------------------------- claim C22
\* the masked raster of a date as a function of its raster and the mask
MaskedRasterOf(raster) ==
    [r \in Rows(land_mask) |-> [c \in Cols(land_mask) |->
        LET j == (r - 1) * Len(land_mask[1]) + c
        IN  IF land_mask[r][c] \/ j > Len(raster) THEN NaN ELSE raster[j]]]
\* mn, mx, mean and med are the statistics of the values of slice
StatisticsOf(slice, mn, mx, mean, med) ==
    LET vals == Values(slice)
    IN  /\ mean = <<Total(vals), Cardinality(vals)>>
        /\ IF vals = {}
           THEN mn = NaN /\ mx = NaN /\ med = <<0, 0>>
           ELSE /\ mn \in vals /\ mx \in vals
                /\ \A v \in vals : mn <= v /\ v <= mx
                /\ med[2] = 2
                /\ 2 * Cardinality({v \in vals : 2 * v < med[1]}) <= Cardinality(vals)
                /\ 2 * Cardinality({v \in vals : 2 * v > med[1]}) <= Cardinality(vals)

\* C22: the masked raster an iteration of the loop computes is a function
\* of the raster of its date and of the mask; whether the date is retained
\* is a function of that masked raster, the mask and the minimum, and the
\* statistics stored for the date are those of that masked raster; what is
\* stored for the other dates is not touched.
C22_LoopIndependent ==
    [][ pc = "loop" =>
          LET result == MaskedRasterOf(WQ_TS_arr[dateind])
              enough == 100 * Cardinality(ValidWater(result))
                            >= min_valid_pix_thr * Cardinality(Water)
          IN  /\ WQ_array' = result
              /\ mode = "07b" =>
                    /\ SubSeq(files', 1, Len(files)) = files
                    /\ Len(files') = IF Water # {} /\ enough THEN Len(files) + 2 ELSE Len(files)
                    /\ Len(files') > Len(files) =>
                          /\ files'[Len(files) + 1].data = result
                          /\ StatisticsOf(result, files'[Len(files) + 2].minValue,
                                          files'[Len(files) + 2].maxValue,
                                          files'[Len(files) + 2].meanValue,
                                          files'[Len(files) + 2].medianValue)
              /\ mode = "07d" =>
                    /\ valid_dates'[dateind] = enough
                    /\ enough => /\ WQ_res'[dateind] = result
                                 /\ StatisticsOf(result, min_vals'[dateind], max_vals'[dateind],
                                                 mean_vals'[dateind], med_vals'[dateind])
                    /\ \A d \in 1..Len(valid_dates) :
                          d # dateind =>
                              /\ valid_dates'[d] = valid_dates[d]
                              /\ WQ_res'[d] = WQ_res[d]
                              /\ min_vals'[d] = min_vals[d] /\ max_vals'[d] = max_vals[d]
                              /\ mean_vals'[d] = mean_vals[d] /\ med_vals'[d] = med_vals[d]
      ]_vars

C22_Witness ==
    /\ pc = "cell16" /\ mode = "07d" /\ dateind = 3
    /\ Len(WQ_TS_arr) = 2 /\ Len(WQ_TS_arr[1]) = 2 /\ Len(land_mask) = 1
    /\ WQ_TS_arr[1][1] # NaN /\ WQ_TS_arr[2][1] = NaN /\ WQ_TS_arr[2][2] # NaN
    /\ Water = {<<1, 1>>, <<1, 2>>}
    /\ valid_dates = <<TRUE, TRUE>>
    /\ WQ_res[1][1][1] = WQ_TS_arr[1][1]
    /\ WQ_array = << <<NaN, WQ_TS_arr[2][2]>> >>

\* ------------------------------------------------------- claims C28 to C30
\* the test of either notebook on the masked raster of the date just processed
RetainedBy07b == Retain07b(n_valid(WQ_array), n_water(land_mask), min_valid_pix_thr)
RetainedBy07d == Retain07d(n_valid(WQ_array), n_water(land_mask), min_valid_pix_thr)

\* C28: on every mask (one without a water pixel included), every minimum
\* and every masked raster the tests of the two notebooks agree.
\* The archive notebook retains every date on a mask without water pixel,
\* the per-date notebook none.
C28_SameFilter == Processed => (RetainedBy07b <=> RetainedBy07d)

\* the statistics stored for date d
StoredStatistics(d) ==
    IF mode = "07b"
    THEN LET k == CHOOSE j \in FileKinds("json") : files[j].path = json_fname(strL5_dates[d])
         IN  [mn |-> files[k].minValue, mx |-> files[k].maxValue,
              mean |-> files[k].meanValue, med |-> files[k].medianValue]
    ELSE [mn |-> min_vals[d], mx |-> max_vals[d], mean |-> mean_vals[d], med |-> med_vals[d]]
\* a <= num/den <= b, false of the undefined fraction
Between(a, frac, b) == frac[2] > 0 /\ a * frac[2] <= frac[1] /\ frac[1] <= b * frac[2]

\* C29: with a minimum greater than 0, on every mask and in both notebooks,
\* the masked raster of a retained date holds at least one value, and of its
\* statistics min <= mean <= max and min <= median <= max.
\* On a mask without water pixel the archive notebook retains dates whose
\* masked raster holds no value.
C29_StatisticsDefined ==
    (Processed /\ min_valid_pix_thr > 0 /\ Exported(dateind - 1)) =>
        LET st == StoredStatistics(dateind - 1)
        IN  /\ ValidPix(WQ_array) # {}
            /\ Between(st.mn, st.mean, st.mx)
            /\ Between(st.mn, st.med, st.mx)

\* the mask has been built
LandMaskBuilt == pc \notin {"cell4", "cell6", "cell10"}

\* C30: a pixel whose percentage is at most water_mask_thr is land, one
\* exactly at water_mask_thr included, and is missing in every masked
\* raster; before the expansion (a buffer below one pixel expands nothing)
\* no other pixel is land.
C30_ThresholdInclusive ==
    LandMaskBuilt =>
        /\ \A p \in Pix(WOFS_array) :
              WOFS_array[p[1]][p[2]] <= water_mask_thr =>
                  /\ land_mask[p[1]][p[2]]
                  /\ Processed => WQ_array[p[1]][p[2]] = NaN
        /\ floor(water_mask_buffer) = 0 =>
              \A p \in Pix(WOFS_array) :
                  land_mask[p[1]][p[2]] <=> WOFS_array[p[1]][p[2]] <= water_mask_thr

C30_Witness ==
    /\ Processed /\ floor(water_mask_buffer) = 0
    /\ \E p, q \in Pix(WOFS_array) :
          /\ WOFS_array[p[1]][p[2]] = water_mask_thr
          /\ land_mask[p[1]][p[2]]
          /\ gdalgeo_WQ_data[p[1]][p[2]] # NaN
          /\ WQ_array[p[1]][p[2]] = NaN
          /\ WOFS_array[q[1]][q[2]] > water_mask_thr
          /\ ~land_mask[q[1]][q[2]]
          /\ WQ_array[q[1]][q[2]] # NaN

\* ------------------------------------------------------- claims C23 to C25
\* the datasets on disk
OnDisk(path) == ReadFile(files, path)
Unlimited(ds) == "time" \in ds.unlimited

\* C23: on an unlimited time dimension, writing a slice at the index that
\* is the length of the dimension makes 'temp' and 'time' one longer, leaves
\* the earlier slices and time values as they were, and leaves the new time
\* entry unset until it is assigned; closing writes the dataset to the file,
\* and the dataset reopened holds the slice appended and the time assigned.
C23_AppendGrowsByOne ==
    [][ /\ (pc = "08e.19" /\ Unlimited(grp)) =>
              LET n == Len(grp.time)
              IN  /\ Len(grp.temp) = n
                  /\ Len(grp'.temp) = n + 1 /\ Len(grp'.time) = n + 1
                  /\ SubSeq(grp'.temp, 1, n) = grp.temp
                  /\ SubSeq(grp'.time, 1, n) = grp.time
                  /\ grp'.temp[n + 1] \in {Matrix(1, 2, 50), Matrix(1, 2, 51)}
                  /\ grp'.time[n + 1] = masked
        /\ pc = "08e.21" =>
              LET n == Len(grp.time)
              IN  /\ grp.time[n] = masked
                  /\ grp'.time = [grp.time EXCEPT ![n] = 120]
                  /\ grp'.temp = grp.temp
        /\ pc = "08e.22" => grp' = <<>> /\ OnDisk("test.nc")' = grp
        /\ pc = "08e.23" =>
              LET n == Len(OnDisk("test.nc").time)
              IN  /\ grp' = OnDisk("test.nc")
                  /\ Len(grp'.temp) = n /\ n >= 2
                  /\ grp'.temp[n] \in {Matrix(1, 2, 50), Matrix(1, 2, 51)}
                  /\ grp'.time[n] = 120
                  /\ SubSeq(grp'.temp, 1, n - 1) = slices(0, n - 1)
                  /\ SubSeq(grp'.time, 1, n - 1) = dates(0, n - 1, 12)
      ]_vars

C23_Witness ==
    /\ pc = "08e.23 close"
    /\ grp.time = <<0, 12, 120>>
    /\ grp.temp = <<Matrix(1, 2, 1), Matrix(1, 2, 2), Matrix(1, 2, 51)>>
    /\ OnDisk("test.nc") = grp

\* C24: the concatenation of two datasets with unlimited time dimension has
\* as many records as the two together: those of the first in their order,
\* then those of the second in theirs, data and time values as they were.
C24_ConcatenationInOrder ==
    pc = "08e.27" =>
        LET a == OnDisk("test.nc")
            b == OnDisk("test2.nc")
            all == OnDisk("test_all.nc")
        IN  /\ Unlimited(a) /\ Unlimited(b)
            /\ Len(all.time) = Len(a.time) + Len(b.time)
            /\ Len(all.temp) = Len(all.time)
            /\ \A i \in 1..Len(a.time) : all.temp[i] = a.temp[i] /\ all.time[i] = a.time[i]
            /\ \A i \in 1..Len(b.time) :
                  /\ all.temp[Len(a.time) + i] = b.temp[i]
                  /\ all.time[Len(a.time) + i] = b.time[i]

C24_Witness ==
    /\ pc = "08e.27"
    /\ OnDisk("test.nc").time = <<0, 12, 120>>
    /\ OnDisk("test2.nc").time = <<15360, 15372>>
    /\ OnDisk("test_all.nc").time = <<0, 12, 120, 15360, 15372>>
    /\ OnDisk("test_all.nc").temp =
          <<Matrix(1, 2, 1), Matrix(1, 2, 2), Matrix(1, 2, 50), Matrix(1, 2, 81), Matrix(1, 2, 82)>>

\* C25: the concatenation of datasets whose time dimension is of fixed size
\* ends with an error and writes nothing, whatever their sizes; a
\* concatenation that writes a file has read two datasets with an unlimited
\* time dimension.
C25_FixedSizeNotConcatenated ==
    [][ (pc = "08e.25" \/ pc = "08e.29") =>
          LET first == OnDisk("test.nc")
              second == OnDisk("test2.nc")
          IN  /\ (~Unlimited(first) /\ ~Unlimited(second)) =>
                     (pc' = "ncrcat ERROR" /\ files' = files)
              /\ (files' # files) => (Unlimited(first) /\ Unlimited(second))
      ]_vars

C25_Witness ==
    /\ pc = "ncrcat ERROR"
    /\ ~Unlimited(OnDisk("test.nc")) /\ ~Unlimited(OnDisk("test2.nc"))
    /\ Len(OnDisk("test.nc").time) = 3 /\ Len(OnDisk("test2.nc").time) = 2
    /\ Len(OnDisk("test_all.nc").time) = 4

====
